---- MODULE Spec2Model ----
(***************************************************************************)
(* XML Batch Editor (src/app.py): the rule engine apply_rules, the         *)
(* encoding resolver _extract_declared_encoding and the archive pipeline   *)
(* process_zip.                                                            *)
(*                                                                         *)
(* Bytes of a document are abstracted to a record                          *)
(*   [head  : the leading bytes as a sequence of lexical tokens,           *)
(*    kind  : what the recovering lxml parser makes of the bytes,          *)
(*    els   : the element tree the bytes denote (kind = "tree"),           *)
(*    canon : whether the remaining layout is the serializer's own].       *)
(* An element is [tag, parent, text]; element 1 is the root, the parent of *)
(* element k is an element before k (document order).  A text is a         *)
(* sequence of characters, <<>> standing for "no text".                    *)
(***************************************************************************)
EXTENDS Integers, Sequences, FiniteSets, TLC

\* ------------------------------ bounds -------------------------------- *\
MaxBody == 2
MaxElems == 2
MaxRules == 2
MaxEntries == 2

\* --------------------------- lexical tokens --------------------------- *\
DQ == "\""
SQ == "'"

\* data[:128] (line 134)
HeadBytes == 128

\* number of bytes a token occupies in the file
Width(t) ==
  CASE t = "<?xml" -> 5
    [] t = "encoding" -> 8
    [] t = DQ -> 1
    [] t = SQ -> 1
    [] t = "utf-8" -> 5
    [] t = "cp1251" -> 6
    [] t = "?>" -> 2
    [] t = "pad" -> 120
    [] t = "bom" -> 3
    [] t = "<r" -> 2
    [] OTHER -> 1

RECURSIVE TotalWidth(_)
TotalWidth(s) == IF s = <<>> THEN 0 ELSE Width(Head(s)) + TotalWidth(Tail(s))

\* data[:128]: the tokens that lie wholly inside the first 128 bytes
Slice128(data) ==
  LET fits == {n \in 0..Len(data) : TotalWidth(SubSeq(data, 1, n)) <= HeadBytes}
      n == CHOOSE m \in fits : \A k \in fits : k <= m
  IN SubSeq(data, 1, n)

\* .decode('ascii', errors='ignore'): bytes >= 0x80 (here the UTF-8 BOM) vanish
DecodeAsciiIgnore(s) == SelectSeq(s, LAMBDA t : t # "bom")

\* str.index(t, from): position of the first t at or after from; 0 = ValueError
IndexFrom(s, t, from) ==
  IF \E i \in from..Len(s) : s[i] = t
  THEN CHOOSE i \in from..Len(s) : s[i] = t /\ \A j \in from..(i - 1) : s[j] # t
  ELSE 0

\* Optional[str]: <<>> is None, <<v>> is the string v (a token sequence)
None == <<>>
Some(v) == <<v>>

_extract_declared_encoding(data) ==
  LET head == DecodeAsciiIgnore(Slice128(data))
      start == IndexFrom(head, "encoding", 1)
      q1 == IndexFrom(head, DQ, start)
      q2 == IndexFrom(head, DQ, q1 + 1)
  IN IF IndexFrom(head, "<?xml", 1) # 0 /\ start # 0
     THEN IF q1 = 0 \/ q2 = 0 THEN None ELSE Some(SubSeq(head, q1 + 1, q2 - 1))
     ELSE None

\* encoding = decl_encoding or 'utf-8' (line 115): None and "" are falsy
ResolveEncoding(data) ==
  LET decl_encoding == _extract_declared_encoding(data)
  IN IF decl_encoding = None \/ decl_encoding[1] = <<>>
     THEN <<"utf-8">> ELSE decl_encoding[1]

\* the codecs etree.tostring accepts; any other name raises LookupError
KnownCodec(enc) == enc \in {<<"utf-8">>, <<"cp1251">>}

\* ------------------------------ documents ----------------------------- *\
NoText == <<>>
Tags == {"a", "ns:a", "A"}
LocalName(tag) == IF tag = "ns:a" THEN "a" ELSE tag

\* lxml refuses text that is not XML compatible (NUL, control characters)
XmlCompatible(v) == \A i \in 1..Len(v) : v[i] # "NUL"

\* root is None when the recovering parser produced no document tree
NoRoot == <<>>

\* XPath string-value: the text of the element and of its descendants, in
\* document order
RECURSIVE StringValue(_, _)
RECURSIVE ConcatFrom(_, _, _)
ConcatFrom(root, i, j) ==
  IF j > Len(root) THEN <<>>
  ELSE (IF root[j].parent = i THEN StringValue(root, j) ELSE <<>>)
         \o ConcatFrom(root, i, j + 1)
StringValue(root, i) == root[i].text \o ConcatFrom(root, i, i + 1)

\* etree.fromstring(xml_bytes, parser=PARSER), PARSER recovering
Parse(xml_bytes) ==
  CASE xml_bytes.kind = "raise" -> [raised |-> TRUE, root |-> NoRoot]
    [] xml_bytes.kind = "noroot" -> [raised |-> FALSE, root |-> NoRoot]
    [] OTHER -> [raised |-> FALSE, root |-> xml_bytes.els]

\* root.xpath(".//*[local-name()='<localname>']"): .//* is
\* descendant-or-self::node()/child::*, the children of root and below
\* (the patterns of the model hold no quote, the expression is well formed)
_elements_by_tag_localname(root, localname) ==
  [raised |-> FALSE,
   els |-> {i \in 2..Len(root) : LocalName(root[i].tag) = localname}]

\* root.xpath(pattern) with the non-elements filtered out (lines 103-105)
XPathElements(root, pattern) ==
  CASE pattern = "//a" ->
         [raised |-> FALSE,
          els |-> {i \in 1..Len(root) : root[i].tag = "a"}]
    [] pattern = "//*[.='x']" ->
         [raised |-> FALSE,
          els |-> {i \in 1..Len(root) : StringValue(root, i) = <<"x">>}]
    [] OTHER -> [raised |-> TRUE, els |-> {}]

\* a slip that appends to the text instead of replacing it
SetTextAppends(old, new_value) == old \o new_value

\* el.text = rule.new_value (line 108)
SetText(old, new_value) == new_value

RuleError(rule) == <<"rule", rule.mode, rule.pattern>>

\* a slip that counts a rule once, not once per element
ApplyRuleCountsRules(root, rule) ==
  IF root = NoRoot
  THEN [root |-> root, applied |-> 0, errors |-> <<RuleError(rule)>>, els |-> {}]
  ELSE
    LET sel == IF rule.mode = "tag"
               THEN _elements_by_tag_localname(root, rule.pattern)
               ELSE XPathElements(root, rule.pattern)
    IN IF sel.raised \/ (sel.els # {} /\ ~XmlCompatible(rule.new_value))
       THEN [root |-> root, applied |-> 0, errors |-> <<RuleError(rule)>>,
             els |-> {}]
       ELSE [root |-> [i \in 1..Len(root) |->
                        IF i \in sel.els
                        THEN [root[i] EXCEPT !.text = SetText(@, rule.new_value)]
                        ELSE root[i]],
             applied |-> IF sel.els = {} THEN 0 ELSE 1, errors |-> <<>>,
             els |-> sel.els]

\* one iteration of the for-loop over rules (lines 98-111)
ApplyRule(root, rule) ==
  IF root = NoRoot
  THEN [root |-> root, applied |-> 0, errors |-> <<RuleError(rule)>>, els |-> {}]
  ELSE
    LET sel == IF rule.mode = "tag"
               THEN _elements_by_tag_localname(root, rule.pattern)
               ELSE XPathElements(root, rule.pattern)
    IN IF sel.raised \/ (sel.els # {} /\ ~XmlCompatible(rule.new_value))
       THEN [root |-> root, applied |-> 0, errors |-> <<RuleError(rule)>>,
             els |-> {}]
       ELSE [root |-> [i \in 1..Len(root) |->
                        IF i \in sel.els
                        THEN [root[i] EXCEPT !.text = SetText(@, rule.new_value)]
                        ELSE root[i]],
             applied |-> Cardinality(sel.els), errors |-> <<>>, els |-> sel.els]

\* the whole for-loop, from rule k on
RECURSIVE ApplyAll(_, _, _)
ApplyAll(root, rules, k) ==
  IF k > Len(rules)
  THEN [root |-> root, applied |-> 0, errors |-> <<>>]
  ELSE LET one == ApplyRule(root, rules[k])
           rest == ApplyAll(one.root, rules, k + 1)
       IN [root |-> rest.root, applied |-> one.applied + rest.applied,
           errors |-> one.errors \o rest.errors]

\* what the serializer keeps of the leading bytes: everything but the BOM
\* and the declaration, which it writes itself
BodyTokens(head) ==
  LET h == DecodeAsciiIgnore(head)
      e == IndexFrom(h, "?>", 1)
  IN IF h # <<>> /\ h[1] = "<?xml" /\ e # 0 THEN SubSeq(h, e + 1, Len(h)) ELSE h

\* etree.tostring(root, encoding=..., xml_declaration=True): lxml writes the
\* declaration with single quotes
Serialize(root, encoding, xml_bytes) ==
  IF root = NoRoot \/ ~KnownCodec(encoding)
  THEN [raised |-> TRUE, bytes |-> xml_bytes]
  ELSE [raised |-> FALSE,
        bytes |-> [head |-> <<"<?xml", "encoding", SQ>> \o encoding
                              \o <<SQ, "?>">> \o BodyTokens(xml_bytes.head),
                   kind |-> "tree", els |-> root, canon |-> TRUE]]

ParseError == <<"parse", "", "">>
SerializeError == <<"serialize", "", "">>

apply_rules(xml_bytes, rules) ==
  LET p == Parse(xml_bytes)
  IN IF p.raised
     THEN [new_bytes |-> xml_bytes, applied |-> 0, errors |-> <<ParseError>>]
     ELSE LET r == ApplyAll(p.root, rules, 1)
              s == Serialize(r.root, ResolveEncoding(xml_bytes.head), xml_bytes)
          IN IF s.raised
             THEN [new_bytes |-> xml_bytes, applied |-> r.applied,
                   errors |-> r.errors \o <<SerializeError>>]
             ELSE [new_bytes |-> s.bytes, applied |-> r.applied,
                   errors |-> r.errors]

\* ------------------------------- state -------------------------------- *\
VARIABLES
  data, decl_encoding, encoding, epc,
  xml_bytes, rules, root, applied, errors, k, els_log, result, again, pc,
  zin, zrules, log_writer, pos, stats, zout, log, outcome, zpc

encVars == <<data, decl_encoding, encoding, epc>>
ruleVars == <<xml_bytes, rules, root, applied, errors, k, els_log, result,
              again, pc>>
zipVars == <<zin, zrules, log_writer, pos, stats, zout, log, outcome, zpc>>
vars == <<encVars, ruleVars, zipVars>>

NoBytes == [head |-> <<>>, kind |-> "raise", els |-> <<>>, canon |-> FALSE]
NoResult == [new_bytes |-> NoBytes, applied |-> 0, errors |-> <<>>]

\* ProcessStats() (lines 148-154)
ProcessStats == [total_files |-> 0, xml_changed |-> 0, xml_unchanged |-> 0,
                 copied_other |-> 0, errors |-> 0]

EncIdle ==
  /\ data = <<>> /\ decl_encoding = None /\ encoding = <<>> /\ epc = "idle"
RuleIdle ==
  /\ xml_bytes = NoBytes /\ rules = <<>> /\ root = NoRoot /\ applied = 0
  /\ errors = <<>> /\ k = 0 /\ els_log = <<>> /\ result = NoResult
  /\ again = NoResult /\ pc = "idle"
ZipIdle ==
  /\ zin = <<>> /\ zrules = <<>> /\ log_writer = FALSE /\ pos = 0
  /\ stats = ProcessStats /\ zout = <<>> /\ log = <<>> /\ outcome = <<>>
  /\ zpc = "idle"

\* sequences over S of length at most n
SeqUpTo(S, n) == UNION {[1..m -> S] : m \in 0..n}

\* ------------------------ the encoding resolver ----------------------- *\
EncodingNames == {"utf-8", "cp1251"}
Quotes == {DQ, SQ}
Declarations ==
  {<<>>, <<"<?xml", "?>">>}
    \cup {<<"<?xml", "encoding", q, e, q, "?>">> : q \in Quotes, e \in EncodingNames}
    \cup {<<"<?xml", "pad", "encoding", q, e, q, "?>">> :
            q \in Quotes, e \in EncodingNames}
BodyAlphabet == {"<r", "encoding", DQ, "cp1251", "x"}
Headers ==
  {b \o d \o t : b \in {<<>>, <<"bom">>}, d \in Declarations,
                 t \in SeqUpTo(BodyAlphabet, MaxBody)}

EncInit == data \in Headers /\ decl_encoding = None /\ encoding = <<>>
           /\ epc = "call" /\ RuleIdle /\ ZipIdle

\* lines 114-115 of apply_rules, calling lines 133-144
Resolve ==
  /\ epc = "call"
  /\ decl_encoding' = _extract_declared_encoding(data)
  /\ encoding' = ResolveEncoding(data)
  /\ epc' = "done"
  /\ UNCHANGED <<data, ruleVars, zipVars>>

EncNext == Resolve
SpecEnc == EncInit /\ [][EncNext]_vars

\* --------------------------- the rule engine -------------------------- *\
Texts == {NoText, <<"x">>}
Element == [tag : Tags, parent : 0..MaxElems, text : Texts]
Trees ==
  UNION {{t \in [1..n -> Element] :
            /\ t[1].parent = 0
            /\ \A i \in 2..n : t[i].parent \in 1..(i - 1)} : n \in 1..MaxElems}

\* Rule (lines 56-60)
Rule ==
  {[mode |-> "tag", pattern |-> "a", new_value |-> <<"x">>],
   [mode |-> "tag", pattern |-> "a", new_value |-> <<"NUL">>],
   [mode |-> "xpath", pattern |-> "//a", new_value |-> <<"y">>],
   [mode |-> "xpath", pattern |-> "//*[.='x']", new_value |-> <<"y">>],
   [mode |-> "xpath", pattern |-> "//*[", new_value |-> <<"y">>]}

RuleHeads ==
  {<<>>,
   <<"<?xml", "encoding", DQ, "cp1251", DQ, "?>">>,
   <<"<?xml", "encoding", SQ, "utf-8", SQ, "?>", "<r", DQ, "x", DQ>>}
RuleDocs ==
  {[head |-> h, kind |-> "tree", els |-> t, canon |-> FALSE] :
     h \in RuleHeads, t \in Trees}
    \cup {[head |-> h, kind |-> kd, els |-> <<>>, canon |-> FALSE] :
            h \in RuleHeads, kd \in {"noroot", "raise"}}

RuleInit ==
  /\ xml_bytes \in RuleDocs /\ rules \in SeqUpTo(Rule, MaxRules)
  /\ root = NoRoot /\ applied = 0 /\ errors = <<>> /\ k = 0 /\ els_log = <<>>
  /\ result = NoResult /\ again = NoResult /\ pc = "parse"
  /\ EncIdle /\ ZipIdle

\* lines 89-96
ParseStep ==
  /\ pc = "parse"
  /\ LET p == Parse(xml_bytes)
     IN IF p.raised
        THEN /\ errors' = <<ParseError>>
             /\ result' = [new_bytes |-> xml_bytes, applied |-> applied,
                           errors |-> <<ParseError>>]
             /\ pc' = "returned"
             /\ UNCHANGED <<root, k>>
        ELSE /\ root' = p.root /\ k' = 1 /\ pc' = "rules"
             /\ UNCHANGED <<errors, result>>
  /\ UNCHANGED <<xml_bytes, rules, applied, els_log, again, encVars, zipVars>>

\* lines 98-111, one rule
RuleStep ==
  /\ pc = "rules" /\ k <= Len(rules)
  /\ LET one == ApplyRule(root, rules[k])
     IN /\ root' = one.root
        /\ applied' = applied + one.applied
        /\ errors' = errors \o one.errors
        /\ els_log' = Append(els_log, [raised |-> one.errors # <<>>,
                                       els |-> one.els])
  /\ k' = k + 1
  /\ UNCHANGED <<xml_bytes, rules, result, again, pc, encVars, zipVars>>

\* lines 113-130
SerializeStep ==
  /\ pc = "rules" /\ k > Len(rules)
  /\ LET s == Serialize(root, ResolveEncoding(xml_bytes.head), xml_bytes)
     IN IF s.raised
        THEN /\ errors' = Append(errors, SerializeError)
             /\ result' = [new_bytes |-> xml_bytes, applied |-> applied,
                           errors |-> Append(errors, SerializeError)]
        ELSE /\ errors' = errors
             /\ result' = [new_bytes |-> s.bytes, applied |-> applied,
                           errors |-> errors]
  /\ pc' = "returned"
  /\ UNCHANGED <<xml_bytes, rules, root, applied, k, els_log, again, encVars,
                 zipVars>>

\* the same rule list applied to the bytes the first call returned
Reapply ==
  /\ pc = "returned"
  /\ again' = apply_rules(result.new_bytes, rules)
  /\ pc' = "reapplied"
  /\ UNCHANGED <<xml_bytes, rules, root, applied, errors, k, els_log, result,
                 encVars, zipVars>>

RuleNext == ParseStep \/ RuleStep \/ SerializeStep \/ Reapply
SpecRules == RuleInit /\ [][RuleNext]_vars

\* the loop of the actions computes what apply_rules computes
StepwiseAgrees == pc \in {"returned", "reapplied"} => result = apply_rules(xml_bytes, rules)

\* ---------------------- claims on the rule engine --------------------- *\
Returned == pc \in {"returned", "reapplied"}
ParsedTree == Returned /\ ~Parse(xml_bytes).raised /\ Parse(xml_bytes).root # NoRoot

RECURSIVE SumCard(_, _)
SumCard(lg, i) ==
  IF i > Len(lg) THEN 0 ELSE Cardinality(lg[i].els) + SumCard(lg, i + 1)

RECURSIVE RaisedErrors(_, _, _)
RaisedErrors(lg, rs, i) ==
  IF i > Len(lg) THEN <<>>
  ELSE (IF lg[i].raised THEN <<RuleError(rs[i])>> ELSE <<>>)
         \o RaisedErrors(lg, rs, i + 1)

LastWriter(e) ==
  LET W == {i \in 1..Len(els_log) : e \in els_log[i].els}
  IN IF W = {} THEN 0 ELSE CHOOSE i \in W : \A j \in W : j <= i

WellFormedRule(r) ==
  /\ XmlCompatible(r.new_value)
  /\ r.pattern \in {"a", "//a", "//*[.='x']"}

\* C5: a tag-mode rule replaces the text of exactly the elements of the
\* document, the root element included, whose local name equals the pattern
\* (case-sensitively, whatever the namespace).
C5_TagSelectsEveryElement ==
  ParsedTree =>
    \A i \in 1..Len(els_log) :
      (rules[i].mode = "tag" /\ ~els_log[i].raised) =>
        els_log[i].els =
          {e \in 1..Len(root) : LocalName(root[e].tag) = rules[i].pattern}

\* C6: rules run in list order, a raising rule is skipped with exactly one
\* error entry and the others still run; at the end every element holds the
\* new_value of the last rule that matched it (its original text if none
\* did) and applied_count is the number of (rule, element) replacements.
C6_LastWriteWins ==
  ParsedTree =>
    /\ Len(els_log) = Len(rules)
    /\ \A i \in 1..Len(rules) : WellFormedRule(rules[i]) => ~els_log[i].raised
    /\ SelectSeq(result.errors, LAMBDA x : x[1] = "rule")
         = RaisedErrors(els_log, rules, 1)
    /\ Len(root) = Len(xml_bytes.els)
    /\ \A e \in 1..Len(root) :
         /\ root[e].tag = xml_bytes.els[e].tag
         /\ root[e].parent = xml_bytes.els[e].parent
         /\ root[e].text = IF LastWriter(e) = 0 THEN xml_bytes.els[e].text
                           ELSE rules[LastWriter(e)].new_value
    /\ result.applied = SumCard(els_log, 1)

\* two rules wrote the same element with different values
C6_Witness ==
  /\ ParsedTree /\ Len(rules) = 2
  /\ ~els_log[1].raised /\ ~els_log[2].raised
  /\ els_log[1].els \cap els_log[2].els # {}
  /\ rules[1].new_value # rules[2].new_value
  /\ \E e \in 1..Len(root) : LastWriter(e) = 0 /\ root[e].text # NoText

NoTree == Parse(xml_bytes).raised \/ Parse(xml_bytes).root = NoRoot

\* C7: when the parser produces no document tree apply_rules returns the
\* original bytes, applied_count = 0 and exactly one error, the parse
\* failure; when serialization fails it returns the original bytes with the
\* failure appended to the errors.
C7_EngineFailures ==
  pc = "returned" =>
    /\ NoTree => result = [new_bytes |-> xml_bytes, applied |-> 0,
                            errors |-> <<ParseError>>]
    /\ (~NoTree /\ Serialize(root, ResolveEncoding(xml_bytes.head),
                             xml_bytes).raised) =>
         /\ result.new_bytes = xml_bytes
         /\ result.errors # <<>>
         /\ result.errors[Len(result.errors)] = SerializeError

TextsOf(b) == LET r == Parse(b).root IN [e \in 1..Len(r) |-> r[e].text]

\* C9: applying the same rule list to the document a previous application
\* produced changes no element's text.
C9_ReapplyConverges ==
  pc = "reapplied" => TextsOf(again.new_bytes) = TextsOf(result.new_bytes)

TextIndependent(r) == r.pattern # "//*[.='x']"

\* C9 (amended): for a rule list none of whose rules selects elements by
\* their text content, applying the list again to the produced document
\* changes no element's text.
C9_ReapplyConvergesTextIndependent ==
  (pc = "reapplied" /\ \A i \in 1..Len(rules) : TextIndependent(rules[i]))
    => TextsOf(again.new_bytes) = TextsOf(result.new_bytes)

C9_Witness ==
  /\ pc = "reapplied" /\ rules # <<>>
  /\ \A i \in 1..Len(rules) : TextIndependent(rules[i])
  /\ result.applied > 0 /\ again.applied > 0
  /\ TextsOf(result.new_bytes) # TextsOf(xml_bytes)
  /\ TextsOf(again.new_bytes) = TextsOf(result.new_bytes)

\* -------------------- claims on the encoding resolver ----------------- *\
\* the XML declaration of the bytes, when the bytes start with one (after
\* an optional BOM) that ends inside the first 128 bytes; <<>> otherwise
Declaration(d) ==
  LET b == IF d # <<>> /\ d[1] = "bom" THEN 1 ELSE 0
      e == IndexFrom(d, "?>", 1)
  IN IF Len(d) > b /\ d[b + 1] = "<?xml" /\ e # 0
        /\ TotalWidth(SubSeq(d, 1, e)) <= HeadBytes
     THEN SubSeq(d, b + 1, e) ELSE <<>>

\* the value of the encoding attribute of the declaration, in either quote
DeclaredEncoding(d) ==
  LET decl == Declaration(d)
      s == IndexFrom(decl, "encoding", 1)
  IN IF s # 0 /\ s + 3 <= Len(decl) /\ decl[s + 1] \in Quotes
        /\ decl[s + 3] = decl[s + 1]
     THEN Some(<<decl[s + 2]>>) ELSE None

\* C8: apply_rules serializes with the declared encoding E whenever the
\* declaration in the first 128 bytes has an encoding attribute of value E,
\* and with UTF-8 (resolver result None) when there is no declaration or no
\* encoding attribute; the resolver returns nothing but the declaration's
\* encoding value.
C8_DeclaredEncodingKept ==
  epc = "done" =>
    /\ DeclaredEncoding(data) # None => encoding = DeclaredEncoding(data)[1]
    /\ DeclaredEncoding(data) = None =>
         (decl_encoding = None /\ encoding = <<"utf-8">>)
    /\ decl_encoding # None => decl_encoding = DeclaredEncoding(data)

\* ------------------------- the archive pipeline ----------------------- *\
Lower(name) == IF name = "B.XML" THEN "b.xml" ELSE name
EndsWithXml(name) == name \in {"a.xml", "b.xml"}
\* arcname.lower().endswith('.xml') (line 168)
IsXml(arcname) == EndsWithXml(Lower(arcname))

\* a row handed to log_writer.writerow: file, status and the details
Row(file, status, err, n, st) ==
  [file |-> file, status |-> status, err |-> err, applied |-> n, stats |-> st]
NoErr == <<"", "", "">>
ErrorRow(arcname, err) == Row(arcname, "error", err, 0, ProcessStats)
StatusRow(arcname, status, n) == Row(arcname, status, NoErr, n, ProcessStats)
FatalRow(arcname) == Row(arcname, "fatal", NoErr, 0, ProcessStats)

\* a slip that dumps the statistics the run started with
SummaryRowStale(st) == Row("__SUMMARY__", "", NoErr, 0, ProcessStats)

\* line 195
SummaryRow(st) == Row("__SUMMARY__", "", NoErr, 0, st)

\* a slip that forgets to compare the bytes
IsChangedIgnoresBytes(n, new_bytes, d) == n > 0

\* applied > 0 and new_bytes != data (line 175)
IsChanged(n, new_bytes, d) == n > 0 /\ new_bytes # d

\* zout.writestr(zi, data) under a fault wr of the output file: "refused"
\* raises before the member is registered (ZipInfo(), header write),
\* "partial" raises while the data is written, and the close that writestr
\* always runs registers the member that was begun
WriteOutcomes == {"ok", "refused", "partial"}
ReadOutcomes == {"ok", "fault"}

_write_clone_info(zo, src_info, d, wr) ==
  CASE wr = "ok" ->
         [raised |-> FALSE,
          zout |-> Append(zo, [filename |-> src_info.filename, data |-> d,
                               complete |-> TRUE])]
    [] wr = "partial" ->
         [raised |-> TRUE,
          zout |-> Append(zo, [filename |-> src_info.filename, data |-> d,
                               complete |-> FALSE])]
    [] OTHER -> [raised |-> TRUE, zout |-> zo]

Bump(st, field) == [st EXCEPT ![field] = @ + 1]

\* the except branch (lines 188-191)
Fatal(st, zo, lg, lw, arcname, how) ==
  [stats |-> Bump(st, "errors"), zout |-> zo,
   log |-> IF lw THEN Append(lg, FatalRow(arcname)) ELSE lg,
   outcome |-> how]

\* lines 169-184: an XML entry once apply_rules has returned res
VisitXml(s1, zo, lg, lw, info, wr, res) ==
  LET arcname == info.filename
      logged == res.errors # <<>> /\ lw
      l2 == IF logged
            THEN lg \o [i \in 1..Len(res.errors) |->
                          ErrorRow(arcname, res.errors[i])]
            ELSE lg
      s2 == IF logged
            THEN [s1 EXCEPT !.errors = @ + Len(res.errors)] ELSE s1
      changed == IsChanged(res.applied, res.new_bytes, info.data)
      s3 == Bump(s2, IF changed THEN "xml_changed" ELSE "xml_unchanged")
      w == _write_clone_info(zo, info,
                             IF changed THEN res.new_bytes ELSE info.data, wr)
      status == IF changed THEN "changed" ELSE "unchanged"
  IN IF w.raised
     THEN Fatal(s3, w.zout, l2, lw, arcname,
                IF wr = "partial" THEN "fatal_partial" ELSE "fatal_refused")
     ELSE [stats |-> s3, zout |-> w.zout,
           log |-> IF lw
                   THEN Append(l2, StatusRow(arcname, status, res.applied))
                   ELSE l2,
           outcome |-> status]

\* lines 185-187: any other entry is copied as it is
VisitOther(s1, zo, lg, lw, info, wr) ==
  LET s2 == Bump(s1, "copied_other")
      w == _write_clone_info(zo, info, info.data, wr)
  IN IF w.raised
     THEN Fatal(s2, w.zout, lg, lw, info.filename,
                IF wr = "partial" THEN "fatal_partial" ELSE "fatal_refused")
     ELSE [stats |-> s2, zout |-> w.zout, log |-> lg, outcome |-> "copied"]

\* the body of the loop over zin.infolist() for one entry (lines 163-191);
\* rd and wr are what reading the entry and writing the member run into
VisitEntry(st, zo, lg, rs, lw, info, rd, wr) ==
  IF rd = "fault"
  THEN Fatal(Bump(st, "total_files"), zo, lg, lw, info.filename, "fatal_read")
  ELSE IF IsXml(info.filename)
  THEN VisitXml(Bump(st, "total_files"), zo, lg, lw, info, wr,
                apply_rules(info.data, rs))
  ELSE VisitOther(Bump(st, "total_files"), zo, lg, lw, info, wr)

EntryNames == {"a.xml", "B.XML", "c.txt"}
ZipDocs ==
  {[head |-> <<>>, kind |-> "tree", canon |-> FALSE,
    els |-> <<[tag |-> "A", parent |-> 0, text |-> NoText],
              [tag |-> "a", parent |-> 1, text |-> NoText]>>],
   [head |-> <<"<?xml", "encoding", SQ, "utf-8", SQ, "?>">>, kind |-> "tree",
    canon |-> TRUE,
    els |-> <<[tag |-> "A", parent |-> 0, text |-> NoText],
              [tag |-> "a", parent |-> 1, text |-> <<"x">>]>>],
   [head |-> <<>>, kind |-> "noroot", canon |-> FALSE, els |-> <<>>]}
Entries == [filename : EntryNames, data : ZipDocs]
ZipRuleLists ==
  {<<>>,
   <<[mode |-> "tag", pattern |-> "a", new_value |-> <<"x">>]>>,
   <<[mode |-> "xpath", pattern |-> "//*[", new_value |-> <<"y">>],
     [mode |-> "tag", pattern |-> "a", new_value |-> <<"x">>]>>}

\* lines 157-161: log_writer is TRUE when a sink was supplied
Init ==
  /\ zin \in SeqUpTo(Entries, MaxEntries)
  /\ zrules \in ZipRuleLists
  /\ log_writer \in BOOLEAN
  /\ pos = 0 /\ stats = ProcessStats /\ zout = <<>> /\ log = <<>>
  /\ outcome = <<>> /\ zpc = "loop"
  /\ EncIdle /\ RuleIdle

\* one iteration of the loop (lines 162-191)
Visit ==
  /\ zpc = "loop" /\ pos < Len(zin)
  /\ \E rd \in ReadOutcomes, wr \in WriteOutcomes :
       LET r == VisitEntry(stats, zout, log, zrules, log_writer, zin[pos + 1],
                           rd, wr)
       IN /\ stats' = r.stats /\ zout' = r.zout /\ log' = r.log
          /\ outcome' = Append(outcome, r.outcome)
  /\ pos' = pos + 1
  /\ UNCHANGED <<zin, zrules, log_writer, zpc, encVars, ruleVars>>

\* lines 193-196
Finish ==
  /\ zpc = "loop" /\ pos = Len(zin)
  /\ log' = IF log_writer THEN Append(log, SummaryRow(stats)) ELSE log
  /\ zpc' = "returned"
  /\ UNCHANGED <<zin, zrules, log_writer, pos, stats, zout, outcome, encVars,
                 ruleVars>>

Next == Visit \/ Finish
Spec == Init /\ [][Next]_vars

\* ----------------------- claims on the pipeline ----------------------- *\
FatalOutcomes == {"fatal_read", "fatal_refused", "fatal_partial"}
IsFatal(i) == outcome[i] \in FatalOutcomes
NFatal == Cardinality({i \in 1..Len(outcome) : IsFatal(i)})

\* C1: at the end of a run total_files is xml_changed + xml_unchanged +
\* copied_other + the number of entries that failed fatally: a fatal entry
\* is counted in none of the three buckets.
C1_EveryEntryInOneBucket ==
  zpc = "returned" =>
    stats.total_files =
      stats.xml_changed + stats.xml_unchanged + stats.copied_other + NFatal

RECURSIVE SurvivorNames(_)
SurvivorNames(i) ==
  IF i > Len(outcome) THEN <<>>
  ELSE (IF IsFatal(i) THEN <<>> ELSE <<zin[i].filename>>) \o SurvivorNames(i + 1)

\* C2: a fatal failure does not stop the run: every entry is visited once,
\* in archive order, and the output archive holds exactly the entries that
\* did not fail fatally, same names, same order; its entry count is
\* total_files minus the number of fatal entries.
C2_OutputIsTheSurvivors ==
  zpc = "returned" =>
    /\ Len(outcome) = Len(zin) /\ stats.total_files = Len(zin)
    /\ [i \in 1..Len(zout) |-> zout[i].filename] = SurvivorNames(1)
    /\ Len(zout) = stats.total_files - NFatal

EngineRan(i) == IsXml(zin[i].filename) /\ outcome[i] # "fatal_read"

RECURSIVE EngineErrors(_)
EngineErrors(i) ==
  IF i > Len(outcome) THEN 0
  ELSE (IF EngineRan(i) THEN Len(apply_rules(zin[i].data, zrules).errors) ELSE 0)
         + EngineErrors(i + 1)

\* C3: stats.errors grows by k for an XML entry with k rule-engine errors,
\* with or without a log sink: at the end it is the sum of the engine's
\* errors over the XML entries plus one per fatally failed entry.
C3_ErrorsCounted ==
  zpc = "returned" => stats.errors = EngineErrors(1) + NFatal

\* the member of the output archive written for input entry i
OutIndex(i) ==
  Cardinality({j \in 1..i : outcome[j] \notin {"fatal_read", "fatal_refused"}})

\* C4: an XML entry that does not fail fatally is classified changed, and
\* the engine's bytes are written, exactly when applied_count > 0 and the
\* bytes differ from the original; otherwise it is unchanged and the
\* original bytes are written.  A changed member differs from its input, an
\* unchanged or copied member is identical to it.
C4_ChangedIffBytesDiffer ==
  \A i \in 1..Len(outcome) :
    LET info == zin[i]
        res == apply_rules(info.data, zrules)
        member == zout[OutIndex(i)]
    IN ~IsFatal(i) =>
         /\ member.filename = info.filename /\ member.complete
         /\ IsXml(info.filename) =>
              /\ outcome[i] \in {"changed", "unchanged"}
              /\ outcome[i] = "changed"
                   <=> (res.applied > 0 /\ res.new_bytes # info.data)
              /\ member.data = IF outcome[i] = "changed" THEN res.new_bytes
                               ELSE info.data
         /\ ~IsXml(info.filename) => outcome[i] = "copied"
         /\ outcome[i] = "changed" => member.data # info.data
         /\ outcome[i] \in {"unchanged", "copied"} => member.data = info.data

\* a rule was applied, the bytes came out as they went in, and the entry
\* was written unchanged next to one that was rewritten
C4_Witness ==
  \E i, j \in 1..Len(outcome) :
    /\ outcome[i] = "unchanged" /\ IsXml(zin[i].filename)
    /\ apply_rules(zin[i].data, zrules).applied > 0
    /\ outcome[j] = "changed" /\ zout[OutIndex(j)].data # zin[j].data

\* the rows entry i is to contribute to the log
ExpectedRows(i) ==
  LET arcname == zin[i].filename
      res == apply_rules(zin[i].data, zrules)
      errs == IF EngineRan(i)
              THEN [n \in 1..Len(res.errors) |-> ErrorRow(arcname, res.errors[n])]
              ELSE <<>>
  IN IF IsFatal(i) THEN errs \o <<FatalRow(arcname)>>
     ELSE IF IsXml(arcname)
     THEN errs \o <<StatusRow(arcname, outcome[i], res.applied)>>
     ELSE <<>>

RECURSIVE ExpectedLog(_)
ExpectedLog(i) ==
  IF i > Len(outcome) THEN <<>> ELSE ExpectedRows(i) \o ExpectedLog(i + 1)

\* C10: with a log sink the rows follow the entry order: an XML entry gives
\* its error rows, one per engine error, then exactly one of changed,
\* unchanged, fatal; a non-XML entry gives a row only when it fails fatally;
\* one __SUMMARY__ row ends the log and carries the returned ProcessStats.
C10_LogFollowsEntries ==
  (zpc = "returned" /\ log_writer) =>
    /\ Len(log) = Len(ExpectedLog(1)) + 1
    /\ SubSeq(log, 1, Len(log) - 1) = ExpectedLog(1)
    /\ log[Len(log)].file = "__SUMMARY__" /\ log[Len(log)].stats = stats
    /\ \A n \in 1..(Len(log) - 1) : log[n].file # "__SUMMARY__"
    /\ \A n \in 1..(Len(log) - 1) :
         log[n].status \in {"error", "changed", "unchanged", "fatal"}

\* an XML entry with engine errors was written, another entry failed, and
\* the summary closes the log
C10_Witness ==
  /\ zpc = "returned" /\ log_writer /\ Len(zin) = 2
  /\ \E i, j \in 1..2 :
       /\ EngineRan(i) /\ ~IsFatal(i)
       /\ apply_rules(zin[i].data, zrules).errors # <<>>
       /\ IsFatal(j)
  /\ log[Len(log)].file = "__SUMMARY__" /\ log[Len(log)].stats.errors >= 2

====
